---- MODULE Spec2Model ----
(***************************************************************************)
(* Model of app.py of intensify.pictures: the upload handler, the Pillow   *)
(* conversion _convert_to_gif and the gifsicle command generator           *)
(* _generate_gifsicle_command / _generate_crops.                           *)
(*                                                                         *)
(* Spec         one upload request, from the POST to the response.         *)
(* SpecCompose  one call of _generate_gifsicle_command, the lazily         *)
(*              generated crop arguments being consumed one at a time.     *)
(***************************************************************************)
EXTENDS Integers, Sequences, FiniteSets, TLC

\* ------------------------------------------------------------------ bounds
\* largest number of frames an uploaded GIF explodes into
MaxFrames == 12
\* largest length of the frame list handed to _generate_gifsicle_command
MaxInputFrames == 12

\* ------------------------------------------------------- program constants
MAX_DIMENSION == 510
max_offset == 10
\* Python floats are IEEE-754 binary64: 53 significant bits
DoublePrecision == 53

None == <<>>

\* side lengths of the uploaded images that are enumerated
Sides == {300, 510, 511, 800, 1000}
ImageSizes == Sides \X Sides
\* sizes of the frames handed to the command generator
FrameSizes == {<<510, 408>>, <<300, 300>>}

Max(a, b) == IF a >= b THEN a ELSE b

\* ------------------------------------------------- binary64 arithmetic
\* A positive double is [bits |-> <<b1..b53>>, exp |-> e], most significant
\* bit first, of value (b1..b53 read as an integer) * 2^e.  All intermediate
\* integers stay below 2^31 for operands below 2^15.

\* the product of a mantissa and an integer is handled in limbs of 15 bits
LimbBits == 15

RECURSIVE Pow2(_)
Pow2(k) == IF k = 0 THEN 1 ELSE 2 * Pow2(k - 1)

RECURSIVE PowMod2(_, _)
\* 2^k mod m
PowMod2(k, m) ==
    IF k = 0 THEN 1 % m
    ELSE IF k % 2 = 0 THEN LET h == PowMod2(k \div 2, m) IN (h * h) % m
    ELSE (2 * PowMod2(k - 1, m)) % m

RECURSIVE LeadingZeros(_, _)
\* number of zero bits of the binary fraction r/m (0 < r < m) before its first 1
LeadingZeros(r, m) == IF 2 * r >= m THEN 0 ELSE 1 + LeadingZeros(2 * r, m)

\* the remainder of the long division a/m after k fraction bits
FracRem(a, m, k) == (a * PowMod2(k, m)) % m

\* the k-th fraction bit of a/m (k >= 1)
FracBit(a, m, k) == IF 2 * FracRem(a, m, k - 1) >= m THEN 1 ELSE 0

\* bits + 1; a carry out of the top bit makes the result one bit longer
IncrBits(bits) ==
    LET zeros == {k \in 1..Len(bits) : bits[k] = 0}
    IN  IF zeros = {} THEN <<1>> \o [k \in 1..Len(bits) |-> 0]
        ELSE LET last == CHOOSE k \in zeros : \A j \in zeros : j <= k
             IN  [k \in 1..Len(bits) |->
                    IF k < last THEN bits[k] ELSE IF k = last THEN 1 ELSE 0]

\* a carry out of the top bit leaves 54 bits, the last one 0: renormalise
Normalise(bits, e) ==
    IF Len(bits) = DoublePrecision + 1
    THEN [bits |-> SubSeq(bits, 1, DoublePrecision), exp |-> e + 1]
    ELSE [bits |-> bits, exp |-> e]

\* a / m rounded to the nearest double, ties to even (0 < a < m)
FloatDiv(a, m) ==
    LET z    == LeadingZeros(a, m)
        bits == [k \in 1..DoublePrecision |-> FracBit(a, m, z + k)]
        rem  == FracRem(a, m, z + DoublePrecision)
        up   == 2 * rem > m \/ (2 * rem = m /\ bits[DoublePrecision] = 1)
    IN  Normalise(IF up THEN IncrBits(bits) ELSE bits, 0 - (z + DoublePrecision))

RECURSIVE BitsToInt(_, _)
\* the first k bits read as an integer
BitsToInt(bits, k) == IF k = 0 THEN 0 ELSE 2 * BitsToInt(bits, k - 1) + bits[k]

\* limb c (0 the least significant) of a bit string: its bits 15c .. 15c+14
\* counted from the least significant end
Limb(bits, c) ==
    LET hi == Len(bits) - LimbBits * c
        lo == Max(hi - LimbBits + 1, 1)
    IN  IF hi < 1 THEN 0 ELSE BitsToInt(SubSeq(bits, lo, hi), hi - lo + 1)

RECURSIVE MulLimbs(_, _, _, _, _)
\* the limbs of i * bits, least significant first, the last carry on top
MulLimbs(bits, c, nlimbs, i, carry) ==
    IF c = nlimbs THEN <<carry>>
    ELSE LET t == i * Limb(bits, c) + carry
         IN  <<t % Pow2(LimbBits)>>
             \o MulLimbs(bits, c + 1, nlimbs, i, t \div Pow2(LimbBits))

\* the exact product i * bits as a bit string without leading zeros
MulBits(bits, i) ==
    LET nlimbs == (Len(bits) + LimbBits - 1) \div LimbBits
        limbs  == MulLimbs(bits, 0, nlimbs, i, 0)
        width  == LimbBits * (nlimbs + 1)
        \* bit j counted from the least significant end, j >= 0
        bit(j) == (limbs[(j \div LimbBits) + 1] \div Pow2(j % LimbBits)) % 2
        ones   == {j \in 0..(width - 1) : bit(j) = 1}
        top    == CHOOSE j \in ones : \A k \in ones : k <= j
    IN  IF ones = {} THEN <<>>
        ELSE [k \in 1..(top + 1) |-> bit(top + 1 - k)]

\* i * d rounded to the nearest double, ties to even (i a positive integer)
FloatMul(i, d) ==
    LET p == MulBits(d.bits, i)
        n == Len(p)
    IN  IF n <= DoublePrecision THEN [bits |-> p, exp |-> d.exp]
        ELSE LET keep   == SubSeq(p, 1, DoublePrecision)
                 guard  == p[DoublePrecision + 1]
                 sticky == \E j \in (DoublePrecision + 2)..n : p[j] = 1
                 up     == guard = 1 /\ (sticky \/ keep[DoublePrecision] = 1)
             IN  Normalise(IF up THEN IncrBits(keep) ELSE keep,
                           d.exp + (n - DoublePrecision))

\* math.floor of a positive double smaller than 2^31
FloatFloor(d) ==
    LET n == Len(d.bits) + d.exp
    IN  IF n <= 0 THEN 0 ELSE BitsToInt(d.bits, n)

\* ------------------------------------------------------------ size policy
\* upload, lines 120-123: new_size is None unless the longer side exceeds
\* MAX_DIMENSION; then ratio is a float and each side is floor(i * ratio)
ComputeNewSize(size) ==
    LET m == Max(size[1], size[2])
    IN  IF m > MAX_DIMENSION
        THEN LET ratio == FloatDiv(MAX_DIMENSION, m)
             IN  <<FloatFloor(FloatMul(size[1], ratio)),
                   FloatFloor(FloatMul(size[2], ratio))>>
        ELSE None


\* --------------------------------------------------------- _convert_to_gif
\* An image is [decode, format, mode, orientation, size]:
\*   decode       "open_fails"  Image.open raises,
\*                "load_fails"  the header parses but the pixel data does not,
\*                "ok"
\*   orientation  the EXIF tag 0x0112, 0 when the file carries no EXIF data
GifImages ==
    [decode : {"open_fails", "load_fails", "ok"}, format : {"GIF"},
     mode : {"P"}, orientation : {0}, size : ImageSizes]

OtherImages ==
    [decode : {"open_fails", "load_fails", "ok"}, format : {"JPEG"},
     mode : {"RGB"}, orientation : 0..8, size : ImageSizes]
    \cup
    [decode : {"open_fails", "load_fails", "ok"}, format : {"PNG"},
     mode : {"RGBA"}, orientation : 0..8, size : ImageSizes]

Images == GifImages \cup OtherImages

\* lines 57-67 and 71: img.convert returns a plain Image, which has no
\* _getexif attribute, so an RGBA input never reaches the EXIF block
HasGetexif(img) == img.mode # "RGBA"

\* lines 75-83: the transpose method of an orientation, None for 1 and for
\* any value that is not in the table
TransposeMethod(orientation) ==
    CASE orientation = 2 -> "FLIP_LEFT_RIGHT"
      [] orientation = 3 -> "ROTATE_180"
      [] orientation = 4 -> "FLIP_TOP_BOTTOM"
      [] orientation = 5 -> "TRANSPOSE"
      [] orientation = 6 -> "ROTATE_270"
      [] orientation = 7 -> "TRANSVERSE"
      [] orientation = 8 -> "ROTATE_90"
      [] OTHER -> "None"

\* Image.transpose: the size of the transposed image
TransposedSize(size, method) ==
    IF method \in {"TRANSPOSE", "ROTATE_270", "TRANSVERSE", "ROTATE_90"}
    THEN <<size[2], size[1]>>
    ELSE size

\* lines 84-88: what new_size becomes once a transpose method was applied;
\* TypeError when new_size is None, which cannot be unpacked
TypeError == <<"TypeError">>

SwapNewSize(new_size) ==
    IF new_size = None THEN TypeError ELSE <<new_size[2], new_size[1]>>

\* _convert_to_gif(img, output, new_size=new_size), lines 55-96.  The result
\* is [err, method, target, out]: the exception that left the function
\* ("none" if it returned), the transpose applied, the size handed to
\* img.resize (None if resize was not called) and the size of the saved GIF.
convert_to_gif(img, new_size) ==
    LET exif   == IF HasGetexif(img) THEN img.orientation ELSE 0
        method == IF exif # 0 THEN TransposeMethod(exif) ELSE "None"
        failed(e) == [err |-> e, method |-> method, target |-> None, out |-> None]
    IN  IF img.decode = "load_fails" THEN failed("OSError")
        ELSE IF method # "None" /\ SwapNewSize(new_size) = TypeError
        THEN failed("TypeError")
        ELSE LET target == IF method # "None" THEN SwapNewSize(new_size)
                           ELSE new_size
                 turned == TransposedSize(img.size, method)
             IN  [err |-> "none", method |-> method, target |-> target,
                  out |-> IF target # None THEN target ELSE turned]

NotConverted == [err |-> "not called", method |-> "None", target |-> None, out |-> None]

\* ------------------------------------------- _generate_gifsicle_command
\* math.ceil(10 / n) for 1 <= n < 10; the float quotient 10 / n of two small
\* integers is an exact integer precisely when n divides 10
CeilDiv10(n) == IF 10 % n = 0 THEN 10 \div n ELSE (10 \div n) + 1

\* 10 / 0 raises; the frame count is then no number
ZeroDivisionError == 0 - 1

\* num_frames with the quotient rounded down instead of up
NumFramesRoundedDown(n) ==
    IF n >= 10 THEN n
    ELSE IF n = 0 THEN ZeroDivisionError
    ELSE n * (10 \div n)

\* lines 41-48: num_frames for a list of n frames
NumFrames(n) ==
    IF n >= 10 THEN n
    ELSE IF n = 0 THEN ZeroDivisionError
    ELSE n * CeilDiv10(n)

\* a cycle that stays on the last element instead of wrapping around
CycleNextNoWrap(pos, n) == IF pos = n THEN n ELSE pos + 1

\* itertools.cycle: the position after pos in a list of n saved elements
CycleNext(pos, n) == IF pos = n THEN 1 ELSE pos + 1

\* a crop argument that shaves max_offset off the far edges whatever x and y are
CropArgFullShave(x, y) ==
    [x1 |-> x, y1 |-> y, width |-> 0 - max_offset, height |-> 0 - max_offset]

\* line 33: the crop argument f'{x},{y}+-{max_offset-x}x-{max_offset-y}' as
\* gifsicle parses it: corner (x1, y1), then a width and a height
CropArg(x, y) ==
    [x1 |-> x, y1 |-> y, width |-> 0 - (max_offset - x), height |-> 0 - (max_offset - y)]

\* gifsicle --crop x1,y1+WxH on a frame of the given size: a zero dimension
\* runs to the frame's edge, a negative one stops that far before the edge
CropRectangle(crop, size) ==
    LET right  == IF crop.width <= 0 THEN size[1] + crop.width ELSE crop.x1 + crop.width
        bottom == IF crop.height <= 0 THEN size[2] + crop.height ELSE crop.y1 + crop.height
    IN  [left |-> crop.x1, top |-> crop.y1, right |-> right, bottom |-> bottom]

NoCrop == [x1 |-> 0 - 1, y1 |-> 0 - 1, width |-> 1, height |-> 1]

\* the names gifsicle --explode gives the frames, in sorted order
FrameNames(n) == [k \in 1..n |-> <<"explo", k>>]


\* =================================================================== state
VARIABLES
    \* --- one upload request
    pc,                 \* position in upload
    has_file,           \* 'files[]' in request.files
    gifsicle_installed, \* /usr/bin/gifsicle exists
    img,                \* the uploaded image
    uploaded_saved,     \* file.save(uploaded_image) has run
    tmpdir,             \* [exists, files]: the TemporaryDirectory
    new_size,           \* upload's local new_size
    conv,               \* the result of _convert_to_gif
    tools,              \* the gifsicle invocations so far, in order
    frames,             \* [n, size]: sorted(glob(explo.*)) and the frames' size
    artifact,           \* [written, num_frames]: OUTPUT_FOLDER/{rando}.gif
    response,           \* "none", "400", "500", "ok"
    error,              \* the exception that ended the request, "none" if none
    \* --- one call of _generate_gifsicle_command
    cpc,                \* position in the call
    input_fnames,       \* its argument
    frame_size,         \* the size of the frames the names stand for
    num_frames,         \* its local num_frames
    pos,                \* position of itertools.cycle in input_fnames
    emitted,            \* the file names of the crop arguments yielded so far
    crop                \* the crop argument yielded last

uvars == <<pc, has_file, gifsicle_installed, img, uploaded_saved, tmpdir, new_size,
           conv, tools, frames, artifact, response, error>>
cvars == <<cpc, input_fnames, frame_size, num_frames, pos, emitted, crop>>
vars == <<uvars, cvars>>

NoFrames == [n |-> 0, size |-> None]
NoArtifact == [written |-> FALSE, num_frames |-> 0]
NoTmpdir == [exists |-> FALSE, files |-> {}]

UploadIdle ==
    /\ pc = "idle" /\ has_file = FALSE /\ gifsicle_installed = TRUE
    /\ img = [decode |-> "ok", format |-> "GIF", mode |-> "P", orientation |-> 0,
              size |-> <<300, 300>>]
    /\ uploaded_saved = FALSE /\ tmpdir = NoTmpdir /\ new_size = None
    /\ conv = NotConverted /\ tools = <<>> /\ frames = NoFrames
    /\ artifact = NoArtifact /\ response = "none" /\ error = "none"

ComposeIdle ==
    /\ cpc = "idle" /\ input_fnames = <<>> /\ frame_size = <<300, 300>>
    /\ num_frames = 0 /\ pos = 1 /\ emitted = <<>> /\ crop = NoCrop

\* a request arrives
Init ==
    /\ pc = "start"
    /\ has_file \in BOOLEAN
    /\ gifsicle_installed \in BOOLEAN
    /\ img \in Images
    /\ uploaded_saved = FALSE /\ tmpdir = NoTmpdir /\ new_size = None
    /\ conv = NotConverted /\ tools = <<>> /\ frames = NoFrames
    /\ artifact = NoArtifact /\ response = "none" /\ error = "none"
    /\ ComposeIdle

\* ------------------------------------------------------------------ upload
\* a directory that is left behind (tempfile.mkdtemp without cleanup)
TemporaryDirectoryLeft(dir) == dir

\* tempfile.TemporaryDirectory.__exit__: the directory and all in it are removed
TemporaryDirectoryExit(dir) == [exists |-> FALSE, files |-> {}]

\* an exception leaves the with block of lines 115-160 and the handler
Raise(e) ==
    /\ pc' = "raised"
    /\ error' = e
    /\ response' = "500"
    /\ tmpdir' = TemporaryDirectoryExit(tmpdir)

\* lines 107-115: abort(400) without the file field; else save the upload and
\* enter the with block
Begin ==
    /\ pc = "start"
    /\ IF ~has_file
       THEN /\ pc' = "aborted"
            /\ response' = "400"
            /\ UNCHANGED <<uploaded_saved, tmpdir>>
       ELSE /\ pc' = "open"
            /\ uploaded_saved' = TRUE
            /\ tmpdir' = [exists |-> TRUE, files |-> {}]
            /\ UNCHANGED response
    /\ UNCHANGED <<has_file, gifsicle_installed, img, new_size, conv, tools, frames,
                   artifact, error, cvars>>

\* a decoder that accepts whatever it is given
OpenNeverRaises(image) == FALSE

\* Image.open raises on bytes no plugin identifies
OpenRaises(image) == image.decode = "open_fails"

\* lines 116-123
ImageOpen ==
    /\ pc = "open"
    /\ IF OpenRaises(img)
       THEN /\ Raise("UnidentifiedImageError")
            /\ UNCHANGED new_size
       ELSE /\ new_size' = ComputeNewSize(img.size)
            /\ pc' = "convert"
            /\ UNCHANGED <<tmpdir, response, error>>
    /\ UNCHANGED <<has_file, gifsicle_installed, img, uploaded_saved, conv, tools,
                   frames, artifact, cvars>>

\* new_size left as it was after the conversion
NewSizeKept(size) == size

\* line 132: new_size after the conversion
NewSizeAfterConvert(size) == None

\* lines 128-132
Convert ==
    /\ pc = "convert"
    /\ IF img.format # "GIF"
       THEN LET r == convert_to_gif(img, new_size)
            IN  /\ conv' = r
                /\ IF r.err # "none"
                   THEN /\ Raise(r.err)
                        /\ UNCHANGED new_size
                   ELSE /\ tmpdir' = [tmpdir EXCEPT !.files = @ \cup {<<"convertedtoa.gif", 0>>}]
                        /\ new_size' = NewSizeAfterConvert(new_size)
                        /\ pc' = "colors"
                        /\ UNCHANGED <<response, error>>
       ELSE /\ pc' = "colors"
            /\ UNCHANGED <<conv, new_size, tmpdir, response, error>>
    /\ UNCHANGED <<has_file, gifsicle_installed, img, uploaded_saved, tools, frames,
                   artifact, cvars>>

\* lines 139-144: Popen of gifsicle --colors 255; nobody waits for it or looks
\* at its exit status
GifsicleColors ==
    /\ pc = "colors"
    /\ IF ~gifsicle_installed
       THEN /\ Raise("FileNotFoundError")
            /\ UNCHANGED tools
       ELSE /\ \E code \in {0, 1} :
                 tools' = Append(tools,
                     [tool |-> "colors",
                      input |-> IF conv.err = "not called" THEN "uploaded" ELSE "converted",
                      resize |-> None, exit |-> code])
            /\ pc' = "explode"
            /\ UNCHANGED <<tmpdir, response, error>>
    /\ UNCHANGED <<has_file, gifsicle_installed, img, uploaded_saved, new_size, conv,
                   frames, artifact, cvars>>

\* lines 148-152: the --resize arguments of the explode pass
ExplodeResize(size) == size

\* the size of the GIF that reaches the explode pass
SourceSize == IF conv.err = "not called" THEN img.size ELSE conv.out

\* lines 146-159: subprocess.run without check: the exit status is dropped.
\* A clean run writes one file per frame; a failed one may write any number.
GifsicleExplode ==
    /\ pc = "explode"
    /\ \E code \in {0, 1} :
         LET most  == IF img.format = "GIF" THEN MaxFrames ELSE 1
             clean == code = 0 /\ tools[1].exit = 0
             arg   == ExplodeResize(new_size)
         IN  \E n \in (IF clean THEN 1 ELSE 0)..most :
               /\ tools' = Append(tools, [tool |-> "explode", input |-> "stdin",
                                          resize |-> arg, exit |-> code])
               /\ tmpdir' = [tmpdir EXCEPT !.files = @ \cup {<<"explo", k>> : k \in 1..n}]
               /\ frames' = [n |-> n, size |-> IF arg # None THEN arg ELSE SourceSize]
    /\ pc' = "encode"
    /\ UNCHANGED <<has_file, gifsicle_installed, img, uploaded_saved, new_size, conv,
                   artifact, response, error, cvars>>

\* lines 160-162: the command is generated (10 / 0 raises for no frames), run
\* without check, the with block is left and the success response returned
GifsicleEncode ==
    /\ pc = "encode"
    /\ IF NumFrames(frames.n) = ZeroDivisionError
       THEN /\ Raise("ZeroDivisionError")
            /\ UNCHANGED <<tools, artifact>>
       ELSE /\ \E code \in {0, 1} :
                 /\ tools' = Append(tools, [tool |-> "encode", input |-> "frames",
                                            resize |-> None, exit |-> code])
                 /\ artifact' = IF code = 0
                                THEN [written |-> TRUE, num_frames |-> NumFrames(frames.n)]
                                ELSE artifact
            /\ tmpdir' = TemporaryDirectoryExit(tmpdir)
            /\ pc' = "done"
            /\ response' = "ok"
            /\ UNCHANGED error
    /\ UNCHANGED <<has_file, gifsicle_installed, img, uploaded_saved, new_size, conv,
                   frames, cvars>>

Next == Begin \/ ImageOpen \/ Convert \/ GifsicleColors \/ GifsicleExplode \/ GifsicleEncode

Spec == Init /\ [][Next]_vars

\* ------------------------------------------- _generate_gifsicle_command
\* a call with any list of up to MaxInputFrames frame files
InitCompose ==
    /\ UploadIdle
    /\ cpc = "call"
    /\ \E n \in 0..MaxInputFrames : input_fnames = FrameNames(n)
    /\ frame_size \in FrameSizes
    /\ num_frames = 0 /\ pos = 1 /\ emitted = <<>> /\ crop = NoCrop

\* lines 41-48: num_frames is computed when the function is called
generate_gifsicle_command ==
    /\ cpc = "call"
    /\ IF NumFrames(Len(input_fnames)) = ZeroDivisionError
       THEN /\ cpc' = "raised"
            /\ UNCHANGED num_frames
       ELSE /\ num_frames' = NumFrames(Len(input_fnames))
            /\ cpc' = "crops"
    /\ UNCHANGED <<input_fnames, frame_size, pos, emitted, crop, uvars>>

\* lines 30-33: one turn of the loop of _generate_crops
generate_crops ==
    /\ cpc = "crops"
    /\ Len(emitted) < num_frames
    /\ \E x \in 0..max_offset, y \in 0..max_offset :
         crop' = CropArg(x, y)
    /\ emitted' = Append(emitted, input_fnames[pos])
    /\ pos' = CycleNext(pos, Len(input_fnames))
    /\ UNCHANGED <<cpc, input_fnames, frame_size, num_frames, uvars>>

\* islice is exhausted; the chain goes on to ['-O3', '-o', output_fname]
crops_exhausted ==
    /\ cpc = "crops"
    /\ Len(emitted) = num_frames
    /\ cpc' = "returned"
    /\ UNCHANGED <<input_fnames, frame_size, num_frames, pos, emitted, crop, uvars>>

NextCompose == generate_gifsicle_command \/ generate_crops \/ crops_exhausted

SpecCompose == InitCompose /\ [][NextCompose]_vars


\* ================================================================== claims
\* --------------------------------------------------------------- SpecCompose
\* C1: for a frame list of length n >= 1 the number of output frames chosen
\* by _generate_gifsicle_command is n when n >= 10 and otherwise the smallest
\* multiple of n that is >= 10; it is always >= 10 and divisible by n
\* (n = 1 gives 10, n = 3 gives 12, n = 12 gives 12).
C1_OutputFrameCount ==
    cpc \in {"crops", "returned"} =>
        LET n == Len(input_fnames)
        IN  /\ n >= 1
            /\ n >= 10 => num_frames = n
            /\ n < 10 => /\ num_frames % n = 0
                         /\ num_frames >= 10
                         /\ num_frames - n < 10
            /\ num_frames >= 10
            /\ num_frames % n = 0
            /\ n = 1 => num_frames = 10
            /\ n = 3 => num_frames = 12
            /\ n = 12 => num_frames = 12

C1_Witness == cpc = "returned" /\ Len(input_fnames) = 3 /\ num_frames = 12

\* C6: for every crop emitted by _generate_crops, x and y lie in
\* [0, max_offset]; the crop removes x pixels from the left, y from the top,
\* max_offset - x from the right and max_offset - y from the bottom; opposing
\* shaves lie in [0, max_offset] and sum to max_offset; the crop region is
\* (width - max_offset) by (height - max_offset).
C6_CropShaves ==
    crop # NoCrop =>
        LET r      == CropRectangle(crop, frame_size)
            left   == r.left
            top    == r.top
            right  == frame_size[1] - r.right
            bottom == frame_size[2] - r.bottom
        IN  /\ crop.x1 \in 0..max_offset /\ crop.y1 \in 0..max_offset
            /\ left = crop.x1 /\ top = crop.y1
            /\ right = max_offset - crop.x1 /\ bottom = max_offset - crop.y1
            /\ right \in 0..max_offset /\ bottom \in 0..max_offset
            /\ left + right = max_offset /\ top + bottom = max_offset
            /\ r.right - r.left = frame_size[1] - max_offset
            /\ r.bottom - r.top = frame_size[2] - max_offset

C6_Witness == cpc = "crops" /\ crop # NoCrop /\ crop.x1 = 3 /\ crop.y1 = max_offset

\* C7: frame selection cycles through the input list in order with
\* wrap-around: the i-th crop (counted from 0) names input frame i mod n,
\* exactly num_frames crops are emitted, and every input frame is used
\* num_frames / n times.
C7_FrameCycle ==
    cpc \in {"crops", "returned"} =>
        LET n == Len(input_fnames)
        IN  /\ Len(emitted) <= num_frames
            /\ \A i \in 0..(Len(emitted) - 1) : emitted[i + 1] = input_fnames[(i % n) + 1]
            /\ cpc = "returned" =>
                 /\ Len(emitted) = num_frames
                 /\ \A f \in 1..n :
                      /\ Cardinality({i \in 1..Len(emitted) : emitted[i] = input_fnames[f]}) * n
                           = num_frames
                      /\ Cardinality({i \in 1..Len(emitted) : emitted[i] = input_fnames[f]})
                           = num_frames \div n

C7_Witness == cpc = "returned" /\ Len(input_fnames) = 4 /\ Len(emitted) = 12

\* ---------------------------------------------------------------------- Spec
Failed(i) == tools[i].exit # 0

\* C2: if any tool invocation of the pipeline (the --colors pass, the
\* --explode pass or the final encode) exits nonzero, the request fails:
\* upload never returns the success response after a failed invocation, and
\* no invocation is repeated.
C2_ToolFailureFailsRequest ==
    /\ (\E i \in 1..Len(tools) : Failed(i)) => response # "ok"
    /\ \A i, j \in 1..Len(tools) : tools[i].tool = tools[j].tool => i = j

\* C3: the temporary directory acquired by upload is released on every exit
\* path: once the request has ended, by a return or by an exception, neither
\* the directory nor a file in it exists.
C3_TmpdirReleased ==
    pc \in {"done", "raised", "aborted"} => ~tmpdir.exists /\ tmpdir.files = {}

C3_Witness ==
    /\ pc = "raised" /\ error = "ZeroDivisionError"
    /\ conv.err = "none" /\ Len(tools) = 2 /\ ~tmpdir.exists

\* Pillow cannot decode the upload: Image.open raises, or the image is one
\* Pillow has to convert and its pixel data does not load
Undecodable == img.decode = "open_fails" \/ (img.decode = "load_fails" /\ img.format # "GIF")

ComputeNewSizeExact(size) ==
    LET m == Max(size[1], size[2])
    IN  IF m > MAX_DIMENSION
        THEN <<(size[1] * MAX_DIMENSION) \div m, (size[2] * MAX_DIMENSION) \div m>>
        ELSE None

\* C5: in _convert_to_gif the target width/height of the resize are swapped
\* if a 90/270-degree rotation is applied (orientations 5 to 8) and used as
\* computed for the other orientations (2, 3, 4, 1 or no tag), so the resized
\* image keeps the aspect of the oriented image.
C5_SwapOnlyOnRotation ==
    (conv.err = "none" /\ ComputeNewSize(img.size) # None) =>
        LET computed == ComputeNewSize(img.size)
        IN  /\ img.orientation \in 5..8 => conv.target = <<computed[2], computed[1]>>
            /\ img.orientation \notin 5..8 => conv.target = computed

\* C8: a resize target is computed if and only if max(width, height) > 510,
\* it is (floor(width * 510 / m), floor(height * 510 / m)) with
\* m = max(width, height), and no resize target applied and no normalized
\* frame has a side longer than 510.
C8_SizePolicy ==
    /\ pc = "convert" =>
         /\ new_size # None <=> Max(img.size[1], img.size[2]) > MAX_DIMENSION
         /\ new_size = ComputeNewSizeExact(img.size)
    /\ conv.target # None => Max(conv.target[1], conv.target[2]) <= MAX_DIMENSION
    /\ \A i \in 1..Len(tools) :
         tools[i].resize # None =>
             Max(tools[i].resize[1], tools[i].resize[2]) <= MAX_DIMENSION
    /\ frames.n > 0 => Max(frames.size[1], frames.size[2]) <= MAX_DIMENSION

\* the number of resizes applied by the conversion and the explode pass
Resizes ==
    (IF conv.target # None THEN 1 ELSE 0)
    + (IF Len(tools) >= 2 /\ tools[2].resize # None THEN 1 ELSE 0)

\* C9: a needed resize is applied exactly once on every path of upload that
\* reaches the explode pass: for a GIF the conversion is skipped, the uploaded
\* file is fed to the tools and the resize is passed to the explode pass; for
\* any other input the resize is done in _convert_to_gif and the explode pass
\* gets no resize arguments; when no resize is needed neither step resizes.
C9_ResizeOnce ==
    Len(tools) >= 2 =>
        LET needed == Max(img.size[1], img.size[2]) > MAX_DIMENSION
        IN  /\ Resizes = IF needed THEN 1 ELSE 0
            /\ img.format = "GIF" =>
                 /\ conv.err = "not called"
                 /\ tools[1].input = "uploaded"
                 /\ needed <=> tools[2].resize # None
            /\ img.format # "GIF" =>
                 /\ conv.err = "none"
                 /\ tools[1].input = "converted"
                 /\ tools[2].resize = None
                 /\ needed <=> conv.target # None

C9_Witness ==
    /\ Len(tools) >= 2 /\ img.format = "JPEG" /\ img.size = <<1000, 800>>
    /\ conv.target # None /\ tools[2].resize = None

\* C10: _convert_to_gif completes without raising for every combination of
\* EXIF orientation and resize target: a decodable non-GIF image is converted
\* and the pipeline goes on to frame extraction.
C10_ConvertNeverRaises ==
    (img.decode = "ok" /\ img.format # "GIF" /\ pc \notin {"start", "open", "convert", "aborted"}) =>
        /\ conv.err = "none"
        /\ error # "TypeError"

====
